---- MODULE Spec2Model ----
(***************************************************************************)
(* A model of scrape.py (the Crisp.nl product scraper).                    *)
(*                                                                         *)
(* Python values are encoded as follows.                                   *)
(*   str    a sequence of one-character strings, '' is << >>               *)
(*   None   the tuple <<"None">>, whose element is no character, so that   *)
(*          it can be compared with a str and with a float                 *)
(*   float  a price n / 10^k is the tuple <<n, k>> with n not divisible by *)
(*          10 unless k = 0                                                *)
(*   dict   a function on the set of its keys                              *)
(*   page   what a fetched response holds, as a record; the None that      *)
(*          get_page returns for a failed fetch is the record NoResponse   *)
(***************************************************************************)
EXTENDS Integers, Sequences, FiniteSets, TLC

VARIABLES
    \* is_on_sale applied to one record (SpecClassify)
    cls_input, cls_product, cls_out,
    \* the parsing part of scrape_products_page applied to one page (SpecExtract)
    ext_scripts, ext_pc, ext_selector, ext_products, ext_tried,
    \* find_sale_products applied to one list of records (SpecSale)
    sale_input, sale_self_products, sale_out,
    \* one run of main (Spec)
    pc,             \* where the run is
    caller,         \* the function that called get_page
    attempt,        \* get_page's loop variable
    log,            \* the outcome of each attempt of this call of get_page
    response,       \* what get_page returned
    urls,           \* what find_product_pages returned
    idx,            \* the place in urls of scrape_all_products' loop
    fetched,        \* the url and the response of each page the loop has scraped
    all_products,   \* scrape_all_products' list
    self_products,  \* self.products
    sale_products,  \* what the last find_sale_products returned
    files,          \* the CSV files written
    console,        \* what was printed
    exit,           \* how main ended
    interrupted_at  \* where the run was when the operator interrupted it

clsVars == <<cls_input, cls_product, cls_out>>
extVars == <<ext_scripts, ext_pc, ext_selector, ext_products, ext_tried>>
saleVars == <<sale_input, sale_self_products, sale_out>>
getPageVars == <<attempt, log, response>>
runVars == <<pc, caller, attempt, log, response, urls, idx, fetched, all_products,
             self_products, sale_products, files, console, exit, interrupted_at>>
vars == <<clsVars, extVars, saleVars, runVars>>

----------------------------------------------------------------------------
(* Python values *)

None == <<"None">>
NoResponse == [none |-> TRUE]
EmptyStr == << >>

Get(d, k, default) == IF k \in DOMAIN d THEN d[k] ELSE default
Set(d, k, v) == [y \in DOMAIN d \cup {k} |-> IF y = k THEN v ELSE d[y]]

\* bool(v) of a str or None, and of a float or None
Truthy(v) == v # None /\ v # EmptyStr
TruthyNum(v) == v # None /\ v # <<0, 0>>

Digits == {"0", "1", "2", "3", "4", "5", "6", "7", "8", "9"}
DigitVal(c) ==
    CASE c = "0" -> 0 [] c = "1" -> 1 [] c = "2" -> 2 [] c = "3" -> 3
      [] c = "4" -> 4 [] c = "5" -> 5 [] c = "6" -> 6 [] c = "7" -> 7
      [] c = "8" -> 8 [] c = "9" -> 9

\* str.lower() on the letters the model's texts use
LowerChar(c) ==
    CASE c = "N" -> "n" [] c = "U" -> "u" [] c = "S" -> "s" [] c = "W" -> "w"
      [] c = "A" -> "a" [] c = "L" -> "l" [] c = "E" -> "e"
      [] OTHER -> c
Lower(s) == [i \in 1..Len(s) |-> LowerChar(s[i])]

\* int(s) of a run of digits
RECURSIVE IntOf(_)
IntOf(s) == IF s = << >> THEN 0 ELSE 10 * IntOf(SubSeq(s, 1, Len(s) - 1)) + DigitVal(s[Len(s)])

\* the end of the maximal run of digits of s that starts at i (i - 1 when s[i] is no digit)
RECURSIVE DigitRunEnd(_, _)
DigitRunEnd(s, i) ==
    IF i <= Len(s) /\ s[i] \in Digits THEN DigitRunEnd(s, i + 1) ELSE i - 1

\* keyword in text
Contains(text, kw) ==
    \E i \in 1..(Len(text) + 1) :
        /\ i + Len(kw) - 1 <= Len(text)
        /\ SubSeq(text, i, i + Len(kw) - 1) = kw

----------------------------------------------------------------------------
(* CrispScraper.is_on_sale *)

sale_keywords == <<
    <<"k", "o", "r", "t", "i", "n", "g">>,
    <<"s", "a", "l", "e">>,
    <<"a", "a", "n", "b", "i", "e", "d", "i", "n", "g">>,
    <<"a", "c", "t", "i", "e">>,
    <<"v", "o", "o", "r", "d", "e", "e", "l">>,
    <<"n", "u", " ", "v", "o", "o", "r">>,
    <<"w", "a", "s">>,
    <<"b", "e", "s", "p", "a", "a", "r">>,
    <<"n", "u">>,
    <<"%">> >>

\* re.search(r'(\d+)%', text): the places where the pattern matches
DiscountMatches(text) ==
    {i \in 1..Len(text) :
        /\ text[i] \in Digits
        /\ DigitRunEnd(text, i) < Len(text)
        /\ text[DigitRunEnd(text, i) + 1] = "%"}

\* group(1) of the leftmost match
DiscountGroup(text) ==
    LET i == CHOOSE m \in DiscountMatches(text) : \A o \in DiscountMatches(text) : m <= o
    IN  SubSeq(text, i, DigitRunEnd(text, i))

\* faulty variant: the keywords are tested before the percentage
is_on_sale_keywords_first(product) ==
    LET title == Get(product, "title", EmptyStr)
        description == Get(product, "description", EmptyStr)
    IN  IF title = None \/ description = None
        THEN [exc |-> "TypeError", ret |-> FALSE, product |-> product]
        ELSE LET text_lower == Lower(title \o <<" ">> \o description)
             IN  IF \E k \in 1..Len(sale_keywords) : Contains(text_lower, sale_keywords[k])
                 THEN [exc |-> "none", ret |-> TRUE, product |-> product]
                 ELSE IF DiscountMatches(text_lower) # {}
                 THEN [exc |-> "none", ret |-> TRUE,
                       product |-> Set(product, "discount_percentage",
                                       IntOf(DiscountGroup(text_lower)))]
                 ELSE [exc |-> "none",
                       ret |-> /\ TruthyNum(Get(product, "original_price", None))
                               /\ TruthyNum(Get(product, "sale_price", None)),
                       product |-> product]

\* The call's outcome: exc is the exception raised ("none" when it returns),
\* ret the value returned, product the record after the call.
is_on_sale(product) ==
    LET title == Get(product, "title", EmptyStr)
        description == Get(product, "description", EmptyStr)
    IN  IF title = None \/ description = None
        THEN [exc |-> "TypeError", ret |-> FALSE, product |-> product]
        ELSE LET text_lower == Lower(title \o <<" ">> \o description)
             IN  IF DiscountMatches(text_lower) # {}
                 THEN [exc |-> "none", ret |-> TRUE,
                       product |-> Set(product, "discount_percentage",
                                       IntOf(DiscountGroup(text_lower)))]
                 ELSE IF \E k \in 1..Len(sale_keywords) : Contains(text_lower, sale_keywords[k])
                 THEN [exc |-> "none", ret |-> TRUE, product |-> product]
                 ELSE IF /\ TruthyNum(Get(product, "original_price", None))
                         /\ TruthyNum(Get(product, "sale_price", None))
                 THEN [exc |-> "none", ret |-> TRUE, product |-> product]
                 ELSE [exc |-> "none", ret |-> FALSE, product |-> product]

----------------------------------------------------------------------------
(* CrispScraper.extract_price *)

RECURSIVE Remove(_, _)
Remove(s, c) ==
    IF s = << >> THEN << >>
    ELSE IF Head(s) = c THEN Remove(Tail(s), c) ELSE <<Head(s)>> \o Remove(Tail(s), c)

Replace(s, c, by) == [i \in 1..Len(s) |-> IF s[i] = c THEN by ELSE s[i]]

\* float(text) of digits with fraction digits frac: n / 10^k without trailing zeros
RECURSIVE Float(_, _)
Float(n, k) == IF k > 0 /\ n % 10 = 0 THEN Float(n \div 10, k - 1) ELSE <<n, k>>

RECURSIVE Pow10(_)
Pow10(k) == IF k = 0 THEN 1 ELSE 10 * Pow10(k - 1)
PriceLess(a, b) == a[1] * Pow10(b[2]) < b[1] * Pow10(a[2])

\* float(group(1)) of the match of (\d+[,.]?\d*) that starts at i, its first
\* run of digits ending at e1
PriceFloat(whole, frac) == Float(IntOf(whole \o frac), Len(frac))
PriceMatch(t, i, e1) ==
    IF e1 < Len(t) /\ t[e1 + 1] = "."
    THEN PriceFloat(SubSeq(t, i, e1), SubSeq(t, e1 + 2, DigitRunEnd(t, e1 + 2)))
    ELSE PriceFloat(SubSeq(t, i, e1), << >>)
PriceMatchAt(t, i) == PriceMatch(t, i, DigitRunEnd(t, i))

\* re.search(r'(\d+[,.]?\d*)', t): the leftmost match starts at the first digit
PriceSearch(t) ==
    IF \A i \in 1..Len(t) : t[i] \notin Digits THEN None
    ELSE PriceMatchAt(t, CHOOSE i \in 1..Len(t) :
                             t[i] \in Digits /\ \A o \in 1..(i - 1) : t[o] \notin Digits)

extract_price(price_text) ==
    IF ~Truthy(price_text) THEN None
    ELSE PriceSearch(Replace(Remove(price_text, "€"), ",", "."))

----------------------------------------------------------------------------
(* CrispScraper.scrape_product_from_element *)

base_url == <<"h", "t", "t", "p", "s", ":", "/", "/", "c", "r", "i", "s", "p", ".", "n", "l">>

\* urljoin(base, ref): an absolute reference (scheme "h"ttp) replaces the base
urljoin(base, ref) == IF ref # << >> /\ ref[1] = "h" THEN ref ELSE base \o ref

\* the price of one price element: None when it is dropped
ElementPrice(price_text) ==
    IF Contains(price_text, <<"€">>) THEN extract_price(price_text) ELSE None

KeepPrice(price) == IF TruthyNum(price) THEN <<price>> ELSE << >>

RECURSIVE ElementPrices(_)
ElementPrices(price_texts) ==
    IF price_texts = << >> THEN << >>
    ELSE KeepPrice(ElementPrice(Head(price_texts))) \o ElementPrices(Tail(price_texts))

MinPrice(prices) ==
    CHOOSE p \in {prices[i] : i \in 1..Len(prices)} :
        \A i \in 1..Len(prices) : ~PriceLess(prices[i], p)
MaxPrice(prices) ==
    CHOOSE p \in {prices[i] : i \in 1..Len(prices)} :
        \A i \in 1..Len(prices) : ~PriceLess(p, prices[i])

\* An element is what the BeautifulSoup searches find in it: the text of the
\* title element (None: no such element), the texts of the price elements, the
\* text of the description element (None: no such element), the image's src
\* and the link's href (None: no such element or attribute).
\* The keys the code sets in product, prices being the list it collects
ElementKeys(element, prices) ==
    {k \in {"title", "price", "sale_price", "original_price", "description", "image", "link"} :
        CASE k = "title" -> element.title # None
          [] k = "price" -> Len(prices) = 1
          [] k \in {"sale_price", "original_price"} -> Len(prices) > 1
          [] k = "description" -> element.description # None
          [] k = "image" -> Truthy(element.src)
          [] k = "link" -> Truthy(element.href)}

ElementValue(element, prices, k) ==
    CASE k = "title" -> element.title
      [] k = "price" -> prices[1]
      [] k = "sale_price" -> MinPrice(prices)
      [] k = "original_price" -> MaxPrice(prices)
      [] k = "description" -> element.description
      [] k = "image" -> urljoin(base_url, element.src)
      [] k = "link" -> urljoin(base_url, element.href)

ElementProduct(element, prices) ==
    [k \in ElementKeys(element, prices) |-> ElementValue(element, prices, k)]

\* the return statement: the product, or None
ProductOrNone(product) ==
    IF /\ Truthy(Get(product, "title", None))
       /\ (TruthyNum(Get(product, "price", None)) \/ TruthyNum(Get(product, "sale_price", None)))
    THEN product ELSE None

scrape_product_from_element(element) ==
    ProductOrNone(ElementProduct(element, ElementPrices(element.price_texts)))

----------------------------------------------------------------------------
(* CrispScraper.scrape_products_page, after the fetch *)

Product == <<"P", "r", "o", "d", "u", "c", "t">>
json_ld == <<"j", "s", "o", "n", "-", "l", "d">>

\* A script block of type application/ld+json is
\*   [kind |-> "nostring"]   script.string is None (an empty script element)
\*   [kind |-> "malformed"]  json.loads raises JSONDecodeError
\*   [kind |-> "array"]      the JSON text is no object
\*   [kind |-> "object", data |-> d]  with d the dict; d.offers, when present,
\*                           is [isdict |-> FALSE] or [isdict |-> TRUE, d |-> dict]
\* The product built from the dict data, whose offers is the dict offers
json_ld_product(data, offers, url) ==
    [title |-> Get(data, "name", None),
     description |-> Get(data, "description", None),
     price |-> extract_price(Get(offers, "price", EmptyStr)),
     link |-> url,
     source |-> json_ld]

\* faulty variant: the price is not tested
AppendIfValid_title_only(products, product) ==
    IF Truthy(product.title) THEN Append(products, product) ELSE products

AppendIfValid(products, product) ==
    IF Truthy(product.title) /\ TruthyNum(product.price)
    THEN Append(products, product) ELSE products

\* data.get('offers', {}).get('price', '') raises AttributeError when offers is no dict
json_ld_offers(data, offers, url, products) ==
    IF ~offers.isdict THEN [exc |-> "none", products |-> products]
    ELSE [exc |-> "none", products |-> AppendIfValid(products, json_ld_product(data, offers.d, url))]

\* The outcome of one iteration of the loop over json_scripts: exc is the
\* exception that leaves the loop ("none": the loop goes on).
json_ld_block(script, url, products) ==
    IF script.kind = "nostring" THEN [exc |-> "TypeError", products |-> products]
    ELSE IF script.kind # "object" THEN [exc |-> "none", products |-> products]
    ELSE IF Get(script.data, "@type", None) # Product
    THEN [exc |-> "none", products |-> products]
    ELSE json_ld_offers(script.data, Get(script.data, "offers", [isdict |-> TRUE, d |-> << >>]),
                        url, products)

RECURSIVE json_ld_scan(_, _, _)
json_ld_continue(r, rest, url) ==
    IF r.exc # "none" THEN r ELSE json_ld_scan(rest, url, r.products)

json_ld_scan(json_scripts, url, products) ==
    IF json_scripts = << >> THEN [exc |-> "none", products |-> products]
    ELSE json_ld_continue(json_ld_block(Head(json_scripts), url, products),
                          Tail(json_scripts), url)

product_selectors == <<"[class*=product]", "[class*=item]", "[data-testid*=product]",
                       "article", ".card", "[class*=tile]">>

ElementLimit == 10

KeepProduct(product) == IF product # None THEN <<product>> ELSE << >>

RECURSIVE ElementProducts(_)
ElementProducts(elements) ==
    IF elements = << >> THEN << >>
    ELSE KeepProduct(scrape_product_from_element(Head(elements)))
             \o ElementProducts(Tail(elements))

FirstElements(elements) ==
    SubSeq(elements, 1, IF Len(elements) < ElementLimit THEN Len(elements) ELSE ElementLimit)

\* One iteration of the loop over product_selectors, elements being what
\* soup.select(selector) returns: the products, and whether the loop breaks
\* faulty variant: the loop breaks as soon as a selector matches an element
SelectorResult_break_on_match(elements, found) ==
    [products |-> found, break |-> elements # << >>]
SelectorResult(elements, found) ==
    [products |-> found, break |-> elements # << >> /\ found # << >>]
selector_step(elements, products) ==
    IF elements = << >> THEN SelectorResult(elements, products)
    ELSE SelectorResult(elements, products \o ElementProducts(FirstElements(elements)))

\* the loop over product_selectors from selector k on; matches[k] is what
\* soup.select(product_selectors[k]) returns
RECURSIVE selector_cascade(_, _, _)
CascadeContinue(r, matches, k) ==
    IF r.break THEN r.products ELSE selector_cascade(matches, k + 1, r.products)

selector_cascade(matches, k, products) ==
    IF k > Len(product_selectors) THEN products
    ELSE CascadeContinue(selector_step(matches[k], products), matches, k)

\* scrape_products_page(url) once the page is fetched
AfterJsonLd(r, page) ==
    IF r.exc # "none" \/ r.products # << >> THEN r
    ELSE [exc |-> "none", products |-> selector_cascade(page.matches, 1, << >>)]
parse_products_page(page, url) ==
    AfterJsonLd(json_ld_scan(page.scripts, url, << >>), page)

----------------------------------------------------------------------------
(* CrispScraper.scrape_all_products: the removal of duplicates *)

\* faulty variant: a record is dropped only when the record just before it has its title
RECURSIVE unique_loop_adjacent_only(_, _, _)
unique_loop_adjacent_only(all, seen_titles, unique_products) ==
    IF all = << >> THEN unique_products
    ELSE IF unique_products # << >> /\ unique_products[Len(unique_products)].title = Head(all).title
    THEN unique_loop_adjacent_only(Tail(all), seen_titles, unique_products)
    ELSE unique_loop_adjacent_only(Tail(all), seen_titles, Append(unique_products, Head(all)))

RECURSIVE unique_loop(_, _, _)
unique_loop(all, seen_titles, unique_products) ==
    IF all = << >> THEN unique_products
    ELSE IF Head(all).title \notin seen_titles
    THEN unique_loop(Tail(all), seen_titles \cup {Head(all).title},
                     Append(unique_products, Head(all)))
    ELSE unique_loop(Tail(all), seen_titles, unique_products)

----------------------------------------------------------------------------
(* CrispScraper.find_sale_products *)

Sentinel == 999

\* the key of the sort: (-discount_percentage, price)
SortKey(x) ==
    <<0 - Get(x, "discount_percentage", 0),
      Get(x, "price", Get(x, "sale_price", <<Sentinel, 0>>))>>
KeyLess(a, b) == a[1] < b[1] \/ (a[1] = b[1] /\ PriceLess(a[2], b[2]))

\* faulty variant: a record goes before the records with an equal key
RECURSIVE Insert_before_equal(_, _)
Insert_before_equal(sorted, x) ==
    IF sorted = << >> THEN <<x>>
    ELSE IF ~KeyLess(SortKey(Head(sorted)), SortKey(x)) THEN <<x>> \o sorted
    ELSE <<Head(sorted)>> \o Insert_before_equal(Tail(sorted), x)

\* list.sort is stable: a record goes behind the records whose key is not greater
RECURSIVE Insert(_, _)
Insert(sorted, x) ==
    IF sorted = << >> THEN <<x>>
    ELSE IF KeyLess(SortKey(x), SortKey(Head(sorted))) THEN <<x>> \o sorted
    ELSE <<Head(sorted)>> \o Insert(Tail(sorted), x)

RECURSIVE Sort(_)
Sort(list) ==
    IF list = << >> THEN << >>
    ELSE Insert(Sort(SubSeq(list, 1, Len(list) - 1)), list[Len(list)])

\* The loop over self.products from record i on. The outcome: exc is the
\* exception is_on_sale raised ("none": the loop ended), products is
\* self.products and sale_products the list, both with the records as the
\* loop left them.
RECURSIVE sale_loop(_, _, _)
MarkOnSale(product) == Set(product, "on_sale", TRUE)
\* faulty variant: every record is marked and appended, whatever is_on_sale returns
SaleLoopStep_appends_all(r, records, i, sale) ==
    IF r.exc # "none"
    THEN [exc |-> r.exc, products |-> records, sale_products |-> sale]
    ELSE sale_loop([records EXCEPT ![i] = MarkOnSale(r.product)], i + 1,
                   Append(sale, MarkOnSale(r.product)))

SaleLoopStep(r, records, i, sale) ==
    IF r.exc # "none"
    THEN [exc |-> r.exc, products |-> records, sale_products |-> sale]
    ELSE IF r.ret
    THEN sale_loop([records EXCEPT ![i] = MarkOnSale(r.product)], i + 1,
                   Append(sale, MarkOnSale(r.product)))
    ELSE sale_loop([records EXCEPT ![i] = r.product], i + 1, sale)

sale_loop(records, i, sale) ==
    IF i > Len(records)
    THEN [exc |-> "none", products |-> records, sale_products |-> sale]
    ELSE SaleLoopStep(is_on_sale(records[i]), records, i, sale)

SortResult(r) ==
    IF r.exc # "none" THEN r
    ELSE [exc |-> "none", products |-> r.products, sale_products |-> Sort(r.sale_products)]

\* find_sale_products() with self.products not empty (main calls it only then;
\* with an empty list it would first call scrape_all_products)
find_sale_products(records) == SortResult(sale_loop(records, 1, << >>))

----------------------------------------------------------------------------
(* CrispScraper.find_product_pages *)

root_url == base_url \o <<"/", "o", "n", "z", "e", "-", "p", "r", "o", "d", "u", "c", "t", "e", "n">>
home_url == base_url \o <<"/">>

category_keywords == <<
    <<"p", "r", "o", "d", "u", "c", "t">>,
    <<"c", "a", "t", "e", "g", "o", "r", "i", "e">>,
    <<"c", "a", "t", "e", "g", "o", "r", "y">> >>

MaxUrls == 5

IsCategoryLink(href) ==
    \E k \in 1..Len(category_keywords) : Contains(Lower(href), category_keywords[k])
InList(list, x) == \E i \in 1..Len(list) : list[i] = x

\* the loop over the links of the page
RECURSIVE AddLinks(_, _)
AddLink(urls_to_scrape, full_url) ==
    IF InList(urls_to_scrape, full_url) THEN urls_to_scrape ELSE Append(urls_to_scrape, full_url)
AddLinks(urls_to_scrape, links) ==
    IF links = << >> THEN urls_to_scrape
    ELSE IF IsCategoryLink(Head(links))
    THEN AddLinks(AddLink(urls_to_scrape, urljoin(base_url, Head(links))), Tail(links))
    ELSE AddLinks(urls_to_scrape, Tail(links))

FirstUrls(urls_to_scrape) ==
    SubSeq(urls_to_scrape, 1,
           IF Len(urls_to_scrape) < MaxUrls THEN Len(urls_to_scrape) ELSE MaxUrls)

\* find_product_pages() once get_page has returned page (None: the fetch failed)
find_product_pages(page) ==
    IF page = NoResponse THEN FirstUrls(<<root_url, home_url>>)
    ELSE FirstUrls(AddLinks(<<root_url, home_url>>, page.links))

----------------------------------------------------------------------------
(* CrispScraper.save_to_csv and print_sale_products *)

fieldnames == <<"title", "price", "sale_price", "original_price", "discount_percentage",
                "description", "link", "image", "on_sale", "source">>

DigitChar(d) ==
    CASE d = 0 -> "0" [] d = 1 -> "1" [] d = 2 -> "2" [] d = 3 -> "3" [] d = 4 -> "4"
      [] d = 5 -> "5" [] d = 6 -> "6" [] d = 7 -> "7" [] d = 8 -> "8" [] d = 9 -> "9"
\* str(n) of an int n >= 0
RECURSIVE IntStr(_)
IntStr(n) == IF n < 10 THEN <<DigitChar(n)>> ELSE IntStr(n \div 10) \o <<DigitChar(n % 10)>>
\* the k digits of the fraction n / 10^k
RECURSIVE FractionStr(_, _)
FractionStr(n, k) ==
    IF k = 0 THEN << >> ELSE FractionStr(n \div 10, k - 1) \o <<DigitChar(n % 10)>>
\* str(x) of a float x
FloatStr(x) ==
    IntStr(x[1] \div Pow10(x[2])) \o <<".">>
        \o (IF x[2] = 0 THEN <<"0">> ELSE FractionStr(x[1] % Pow10(x[2]), x[2]))

\* what the csv writer writes for the field of a record: '' for a missing field
\* and for None, str(value) otherwise
Cell(product, field) ==
    IF field \notin DOMAIN product THEN EmptyStr
    ELSE IF field \in {"price", "sale_price", "original_price"} THEN FloatStr(product[field])
    ELSE IF field = "discount_percentage" THEN IntStr(product[field])
    ELSE IF field = "on_sale" THEN <<"T", "r", "u", "e">>
    ELSE IF product[field] = None THEN EmptyStr
    ELSE product[field]

Row(product) == [f \in {fieldnames[i] : i \in 1..Len(fieldnames)} |-> Cell(product, f)]

\* the file save_to_csv(records, filename) writes
save_to_csv(records, filename) ==
    [name |-> filename, rows |-> [i \in 1..Len(records) |-> Row(records[i])]]

PrintLimit == 20

\* what print_sale_products prints of the list: the titles of the first
\* PrintLimit records, and the number of the records left out
printed_list(list) ==
    [msg |-> "sale products",
     titles |-> [i \in 1..(IF Len(list) < PrintLimit THEN Len(list) ELSE PrintLimit) |->
                    list[i].title],
     more |-> IF Len(list) > PrintLimit THEN Len(list) - PrintLimit ELSE 0]

----------------------------------------------------------------------------
(* SpecClassify: is_on_sale applied to every record over a small alphabet *)

MaxTitleLen == 2
MaxDescLen == 2

Alphabet == {"1", "2", "%", "n", "u", "N"}

RECURSIVE TextsOfLen(_)
TextsOfLen(n) ==
    IF n = 0 THEN {<< >>}
    ELSE {Append(s, c) : s \in TextsOfLen(n - 1), c \in Alphabet}
TextsUpTo(n) == UNION {TextsOfLen(k) : k \in 0..n}

\* The price fields a record that scrape_products_page returns can have
PriceShapes == {
    [price |-> <<1, 0>>],
    [sale_price |-> <<1, 0>>, original_price |-> <<2, 0>>] }

\* A record with title t, description d (Absent: no such key) and the price fields ps
Absent == <<"Absent">>
MkRecord(t, d, ps) ==
    LET base == Set(ps, "title", t)
    IN  IF d = Absent THEN base ELSE Set(base, "description", d)

ClassifyInputs ==
    {MkRecord(t, d, ps) :
        t \in TextsUpTo(MaxTitleLen) \ {<< >>},
        d \in TextsUpTo(MaxDescLen) \cup {None, Absent},
        ps \in PriceShapes}

NoCall == [called |-> FALSE, exc |-> "none", ret |-> FALSE]

ClsParked ==
    /\ cls_input = << >>
    /\ cls_product = << >>
    /\ cls_out = NoCall

ExtParked ==
    /\ ext_scripts = << >>
    /\ ext_pc = "parked"
    /\ ext_selector = 0
    /\ ext_products = << >>
    /\ ext_tried = << >>

NoSaleCall == [called |-> FALSE, exc |-> "none", result |-> << >>]
SaleParked ==
    /\ sale_input = << >>
    /\ sale_self_products = << >>
    /\ sale_out = NoSaleCall

\* how main ended: how is "running", "normal", "KeyboardInterrupt" or "Exception",
\* exc the exception and in the function that raised it
Running == [how |-> "running", exc |-> "none", in |-> "none"]
Msg(m) == [msg |-> m, titles |-> << >>, more |-> 0]

RunParked ==
    /\ pc = "parked"
    /\ caller = "none"
    /\ attempt = 0
    /\ log = << >>
    /\ response = NoResponse
    /\ urls = << >>
    /\ idx = 0
    /\ fetched = << >>
    /\ all_products = << >>
    /\ self_products = << >>
    /\ sale_products = << >>
    /\ files = << >>
    /\ console = << >>
    /\ exit = Running
    /\ interrupted_at = "nowhere"

ClassifyInit ==
    /\ ExtParked /\ SaleParked /\ RunParked
    /\ cls_input \in ClassifyInputs
    /\ cls_product = cls_input
    /\ cls_out = NoCall

\* is_on_sale(product) is called (find_sale_products calls it once per record,
\* and main runs find_sale_products twice)
Classify ==
    /\ LET r == is_on_sale(cls_product)
       IN  /\ cls_product' = r.product
           /\ cls_out' = [called |-> TRUE, exc |-> r.exc, ret |-> r.ret]
    /\ cls_out.called => cls_out.exc = "none"
    /\ UNCHANGED <<cls_input, extVars, saleVars, runVars>>

ClassifyNext == Classify

SpecClassify == ClassifyInit /\ [][ClassifyNext]_vars

----------------------------------------------------------------------------
(* Claims about is_on_sale, checked under SpecClassify *)

InputText == Lower(cls_input.title \o <<" ">> \o Get(cls_input, "description", EmptyStr))

\* the integer of the leftmost <digits>% of text: the digits t[i..j] are a whole
\* run of digits that "%" follows, and no digit before i starts such a run
IsFirstPercentage(t, i, j) ==
    /\ i <= j /\ j < Len(t)
    /\ \A k \in i..j : t[k] \in Digits
    /\ t[j + 1] = "%"
    /\ \A i0 \in 1..(i - 1) : \A j0 \in i0..(Len(t) - 1) :
           ~((\A k \in i0..j0 : t[k] \in Digits) /\ t[j0 + 1] = "%")
HasPercentage(t) == \E i \in 1..Len(t) : \E j \in i..Len(t) : IsFirstPercentage(t, i, j)

HasKeyword(t) == \E k \in 1..Len(sale_keywords) : Contains(t, sale_keywords[k])
HasBothPrices(r) == "original_price" \in DOMAIN r /\ "sale_price" \in DOMAIN r

\* C6: when is_on_sale returns, a text with <digits>% gives true and sets
\* discount_percentage to that integer, whatever the keywords and prices; without
\* it the result is true exactly when a sale keyword occurs or both original_price
\* and sale_price are present, and the record is left as it was.
C6_CheckOrder ==
    (cls_out.called /\ cls_out.exc = "none") =>
        IF HasPercentage(InputText)
        THEN /\ cls_out.ret = TRUE
             /\ \E i \in 1..Len(InputText) : \E j \in i..Len(InputText) :
                    /\ IsFirstPercentage(InputText, i, j)
                    /\ cls_product = Set(cls_input, "discount_percentage",
                                         IntOf(SubSeq(InputText, i, j)))
        ELSE /\ cls_product = cls_input
             /\ cls_out.ret = (HasKeyword(InputText) \/ HasBothPrices(cls_input))

\* a text with a percentage and the keyword "nu", in a record without sale prices
C6_Witness ==
    /\ cls_out.called /\ cls_out.exc = "none" /\ cls_out.ret
    /\ cls_input.title = <<"n", "u">>
    /\ Get(cls_input, "description", EmptyStr) = <<"2", "%">>
    /\ "price" \in DOMAIN cls_input
    /\ cls_product # cls_input
    /\ cls_product.discount_percentage = 2

----------------------------------------------------------------------------
(* SpecSale: find_sale_products applied to every list of at most MaxProducts *)
(* records with distinct titles, which is what scrape_all_products leaves in *)
(* self.products                                                            *)

MaxProducts == 3

SaleTitles == {<<"a">>, <<"b">>, <<"N", "u">>, <<"9", "%">>}
\* the description and the price fields a record has beside its title
SaleVariants == {
    [d |-> Absent, ps |-> [price |-> <<1, 0>>]],
    [d |-> Absent, ps |-> [sale_price |-> <<1, 0>>, original_price |-> <<2, 0>>]],
    [d |-> <<"5", "%">>, ps |-> [price |-> <<1, 0>>]],
    [d |-> <<"5", "%">>, ps |-> [price |-> <<25, 1>>]],
    [d |-> None, ps |-> [price |-> <<1, 0>>]] }

SaleRecords == {MkRecord(t, v.d, v.ps) : t \in SaleTitles, v \in SaleVariants}

\* the lists of n records with distinct titles
RECURSIVE SaleListsOfLen(_)
SaleListsOfLen(n) ==
    IF n = 0 THEN {<< >>}
    ELSE UNION {{Append(l, r) : r \in {x \in SaleRecords : \A i \in 1..Len(l) : l[i].title # x.title}}
                   : l \in SaleListsOfLen(n - 1)}
SaleLists == UNION {SaleListsOfLen(n) : n \in 1..MaxProducts}

SaleInit ==
    /\ ClsParked /\ ExtParked /\ RunParked
    /\ sale_input \in SaleLists
    /\ sale_self_products = sale_input
    /\ sale_out = NoSaleCall

SaleReturn(r) ==
    /\ sale_self_products' = r.products
    /\ sale_out' = [called |-> TRUE, exc |-> r.exc,
                    result |-> IF r.exc = "none" THEN r.sale_products ELSE << >>]

\* find_sale_products() is called (main calls it twice)
FindSale ==
    /\ sale_out.exc = "none"
    /\ SaleReturn(find_sale_products(sale_self_products))
    /\ UNCHANGED <<sale_input, clsVars, extVars, runVars>>

SaleNext == FindSale

SpecSale == SaleInit /\ [][SaleNext]_vars

----------------------------------------------------------------------------
(* Claims about find_sale_products, checked under SpecSale *)

TextOf(r) == Lower(r.title \o <<" ">> \o Get(r, "description", EmptyStr))
\* what the sale classifier accepts
Accepted(r) == HasPercentage(TextOf(r)) \/ HasKeyword(TextOf(r)) \/ HasBothPrices(r)

SaleReturned == sale_out.called /\ sale_out.exc = "none"
InputPlace(r) == CHOOSE i \in 1..Len(sale_input) : sale_input[i].title = r.title

Discount(r) == IF "discount_percentage" \in DOMAIN r THEN r.discount_percentage ELSE 0
BestPrice(r) ==
    IF "price" \in DOMAIN r THEN r.price
    ELSE IF "sale_price" \in DOMAIN r THEN r.sale_price
    ELSE <<Sentinel, 0>>

\* C5: the list is ordered by discount_percentage, larger first and a missing one
\* as 0, then by price (else sale_price, else the sentinel), smaller first, and
\* records equal in both keep the order they have in self.products.
C5_SortOrder ==
    SaleReturned =>
        \A k \in 1..Len(sale_out.result) : \A l \in 1..Len(sale_out.result) :
            k < l =>
                LET a == sale_out.result[k]
                    b == sale_out.result[l]
                IN  /\ Discount(a) >= Discount(b)
                    /\ Discount(a) = Discount(b) => ~PriceLess(BestPrice(b), BestPrice(a))
                    /\ (Discount(a) = Discount(b) /\ BestPrice(a) = BestPrice(b))
                           => InputPlace(a) < InputPlace(b)

\* the record with the discount is moved to the front of two records that are
\* equal in both keys, one by its price and one by its sale_price
C5_Witness ==
    /\ SaleReturned
    /\ Len(sale_out.result) = 3
    /\ InputPlace(sale_out.result[1]) = 3
    /\ Discount(sale_out.result[1]) > 0
    /\ Discount(sale_out.result[2]) = 0 /\ Discount(sale_out.result[3]) = 0
    /\ "price" \in DOMAIN sale_out.result[2]
    /\ "sale_price" \in DOMAIN sale_out.result[3]
    /\ BestPrice(sale_out.result[2]) = BestPrice(sale_out.result[3])

----------------------------------------------------------------------------
(* SpecExtract: the parsing part of scrape_products_page on one page. The   *)
(* ld+json scripts of the page are drawn at the start, and what each        *)
(* soup.select(selector) returns is drawn when the cascade asks for it.     *)

MaxScripts == 2

page_url == base_url \o <<"/", "p">>

T_W == <<"W">>
T_V == <<"V">>
T_desc == <<"n", "u">>
T_999 == <<"9", ".", "9", "9">>
T_0 == <<"0">>
T_Offer == <<"O", "f", "f", "e", "r">>

OffersDict(d) == [isdict |-> TRUE, d |-> d]
\* the JSON object d with "@type": type
Typed(type, d) == Set(d, "@type", type)

ScriptKinds == {
    [kind |-> "nostring"],
    [kind |-> "malformed"],
    [kind |-> "array"],
    [kind |-> "object",
     data |-> Typed(Product, [name |-> T_W, description |-> T_desc,
               offers |-> OffersDict([price |-> T_999])])],
    [kind |-> "object",
     data |-> Typed(Product, [name |-> T_V, offers |-> OffersDict([price |-> T_999])])],
    [kind |-> "object",
     data |-> Typed(Product, [offers |-> OffersDict([price |-> T_999])])],
    [kind |-> "object",
     data |-> Typed(Product, [name |-> T_W, offers |-> OffersDict([price |-> T_0])])],
    [kind |-> "object",
     data |-> Typed(Product, [name |-> T_W, offers |-> [isdict |-> FALSE]])],
    [kind |-> "object",
     data |-> Typed(T_Offer, [name |-> T_W, offers |-> OffersDict([price |-> T_999])])] }

RECURSIVE ScriptsOfLen(_)
ScriptsOfLen(n) ==
    IF n = 0 THEN {<< >>}
    ELSE {Append(s, b) : s \in ScriptsOfLen(n - 1), b \in ScriptKinds}
ScriptLists == UNION {ScriptsOfLen(k) : k \in 0..MaxScripts}

E_euro1 == <<"€", "1">>
E_euro2 == <<"€", " ", "2", ",", "5", "0">>
E_good == [title |-> <<"a">>, price_texts |-> <<E_euro1>>, description |-> None,
           src |-> None, href |-> <<"/", "a">>]
E_sale == [title |-> <<"b">>, price_texts |-> <<E_euro2, E_euro1>>,
           description |-> <<"5", "%">>, src |-> <<"h", "/", "i">>, href |-> None]
E_notitle == [title |-> None, price_texts |-> <<E_euro1>>, description |-> None,
              src |-> None, href |-> None]
E_noprice == [title |-> <<"c">>, price_texts |-> << <<"1">> >>, description |-> None,
              src |-> None, href |-> None]

\* more elements than ElementLimit, of which only the last one holds a product
E_over_limit ==
    [i \in 1..(ElementLimit + 1) |->
        IF i > ElementLimit THEN E_good ELSE IF i % 2 = 1 THEN E_notitle ELSE E_noprice]

ElementLists == {<< >>, E_over_limit, <<E_noprice, E_good>>, <<E_sale>>}

ExtractInit ==
    /\ ClsParked /\ SaleParked /\ RunParked
    /\ ext_scripts \in ScriptLists
    /\ ext_pc = "json_ld"
    /\ ext_selector = 0
    /\ ext_products = << >>
    /\ ext_tried = << >>

\* the loop over json_scripts, and the test that follows it
ExtAfterJsonLd(r) ==
    /\ ext_products' = IF r.exc = "none" THEN r.products ELSE << >>
    /\ ext_pc' = IF r.exc # "none" THEN "raised"
                 ELSE IF r.products # << >> THEN "returned"
                 ELSE "selectors"
    /\ ext_selector' = IF r.exc = "none" /\ r.products = << >> THEN 1 ELSE 0
ExtJsonLd ==
    /\ ext_pc = "json_ld"
    /\ ExtAfterJsonLd(json_ld_scan(ext_scripts, page_url, << >>))
    /\ UNCHANGED <<ext_scripts, ext_tried, clsVars, saleVars, runVars>>

\* one iteration of the loop over product_selectors
ExtAfterSelector(r) ==
    /\ ext_products' = r.products
    /\ IF r.break \/ ext_selector = Len(product_selectors)
       THEN ext_pc' = "returned" /\ UNCHANGED ext_selector
       ELSE ext_pc' = "selectors" /\ ext_selector' = ext_selector + 1
ExtSelector ==
    /\ ext_pc = "selectors"
    /\ ext_selector <= Len(product_selectors)
    /\ \E elements \in ElementLists :
        /\ ext_tried' = Append(ext_tried, [selector |-> ext_selector, elements |-> elements])
        /\ ExtAfterSelector(selector_step(elements, ext_products))
    /\ UNCHANGED <<ext_scripts, clsVars, saleVars, runVars>>

ExtractNext == ExtJsonLd \/ ExtSelector

SpecExtract == ExtractInit /\ [][ExtractNext]_vars

----------------------------------------------------------------------------
(* Claims about the extraction, checked under SpecExtract *)

IsProductBlock(b) ==
    /\ b.kind = "object"
    /\ "@type" \in DOMAIN b.data /\ b.data["@type"] = Product
\* a block of type Product with a name and an offers.price
HasNameAndPrice(b) ==
    /\ IsProductBlock(b)
    /\ "name" \in DOMAIN b.data
    /\ "offers" \in DOMAIN b.data /\ b.data.offers.isdict
    /\ "price" \in DOMAIN b.data.offers.d
\* ... whose name is not empty and whose price parses to a number that is not 0
HasValidNameAndPrice(b) ==
    /\ HasNameAndPrice(b)
    /\ b.data.name # << >>
    /\ extract_price(b.data.offers.d.price) \notin {None, <<0, 0>>}

structured_data == <<"s", "t", "r", "u", "c", "t", "u", "r", "e", "d", "-", "d", "a", "t", "a">>

\* the records of the blocks, in the order of the blocks, tagged tag
RecordsOf(blocks, tag) ==
    /\ Len(ext_products) = Len(blocks)
    /\ \A i \in 1..Len(blocks) :
        /\ ext_products[i].title = blocks[i].data.name
        /\ ext_products[i].price = extract_price(blocks[i].data.offers.d.price)
        /\ ext_products[i].source = tag

YieldsNothing(elements) ==
    \A i \in 1..Len(elements) :
        i <= ElementLimit => scrape_product_from_element(elements[i]) = None

\* C9 as stated: once a selector has matched an element, no later selector is tried
C9_AsStated ==
    \A i \in 1..Len(ext_tried) : \A j \in 1..Len(ext_tried) :
        i < j => ext_tried[i].elements = << >>

\* C9 amended: the selectors are tried in the order of the list, and a later one
\* is tried exactly when none of the (first ElementLimit) elements of every
\* earlier one gives a valid record, whether or not it matched elements: the
\* cascade ends at the first selector whose elements give a record, and that
\* selector's records are the result.
C9_FirstYieldingSelector ==
    /\ \A i \in 1..Len(ext_tried) :
        /\ ext_tried[i].selector = i
        /\ i < Len(ext_tried) => YieldsNothing(ext_tried[i].elements)
    /\ (ext_pc = "selectors" /\ ext_tried # << >>) =>
        YieldsNothing(ext_tried[Len(ext_tried)].elements)
    /\ (ext_pc = "returned" /\ ext_tried # << >>) =>
        /\ YieldsNothing(ext_tried[Len(ext_tried)].elements)
               => Len(ext_tried) = Len(product_selectors)
        /\ ext_products = ElementProducts(FirstElements(ext_tried[Len(ext_tried)].elements))

\* a selector that matched elements without a valid record, and a later one that
\* gave the records
C9_Witness ==
    /\ ext_pc = "returned"
    /\ Len(ext_tried) = 3
    /\ ext_tried[1].elements = << >>
    /\ ext_tried[2].elements # << >>
    /\ ext_products # << >>

----------------------------------------------------------------------------
(* Spec: one run of main. Every fetch succeeds with one of the pages of      *)
(* Pages or fails with a RequestException, and the operator may interrupt    *)
(* the run wherever it is.                                                   *)

retries == 3

NoMatch == [k \in 1..Len(product_selectors) |-> << >>]

E_a_again == [title |-> <<"a">>, price_texts |-> << <<"€", "2", ",", "5", "0">> >>,
              description |-> <<"N", "u">>, src |-> None, href |-> None]
E_c == [title |-> <<"c">>, price_texts |-> <<E_euro1>>, description |-> None,
        src |-> None, href |-> None]

\* a listing with two products and links to four pages more
Page_listing ==
    [scripts |-> << >>,
     matches |-> [NoMatch EXCEPT ![1] = <<E_good, E_sale>>],
     links |-> << <<"/", "p", "r", "o", "d", "u", "c", "t", "/", "1">>,
                  <<"/", "c", "a", "t", "e", "g", "o", "r", "i", "e", "/", "2">>,
                  <<"/", "a", "b", "o", "u", "t">>,
                  <<"/", "o", "n", "z", "e", "-", "p", "r", "o", "d", "u", "c", "t", "e", "n">>,
                  <<"/", "C", "a", "t", "e", "g", "o", "r", "y", "/", "3">>,
                  <<"h", "t", "t", "p", ":", "/", "/", "x", "/", "p", "r", "o", "d", "u", "c", "t">> >>]
\* a page with two JSON-LD products, the second without a description
Page_json_ld ==
    [scripts |-> << [kind |-> "object",
                     data |-> Typed(Product, [name |-> T_W, description |-> T_desc,
                                              offers |-> OffersDict([price |-> T_999])])],
                    [kind |-> "malformed"],
                    [kind |-> "object",
                     data |-> Typed(Product, [name |-> T_V,
                                              offers |-> OffersDict([price |-> T_999])])] >>,
     matches |-> [NoMatch EXCEPT ![2] = <<E_c>>],
     links |-> << >>]
\* a page whose first matching selector gives no product, and whose fourth gives
\* a product with the title of one of the listing and a new one
Page_again ==
    [scripts |-> << [kind |-> "array"] >>,
     matches |-> [NoMatch EXCEPT ![1] = <<E_notitle>>, ![4] = <<E_a_again, E_c>>],
     links |-> << <<"/", "p", "r", "o", "d", "u", "c", "t", "/", "1">> >>]
\* a page with an empty ld+json script element
Page_empty_script ==
    [scripts |-> << [kind |-> "nostring"] >>,
     matches |-> [NoMatch EXCEPT ![1] = <<E_good>>],
     links |-> << >>]

Pages == {Page_listing, Page_json_ld, Page_again, Page_empty_script}

\* what session.get and raise_for_status do: the page, or a RequestException
FetchOutcomes == {[ok |-> TRUE, page |-> p] : p \in Pages} \cup {[ok |-> FALSE, page |-> NoResponse]}

Init ==
    /\ ClsParked /\ ExtParked /\ SaleParked
    /\ pc = "fetch"
    /\ caller = "find_product_pages"
    /\ attempt = 0
    /\ log = << >>
    /\ response = NoResponse
    /\ urls = << >>
    /\ idx = 0
    /\ fetched = << >>
    /\ all_products = << >>
    /\ self_products = << >>
    /\ sale_products = << >>
    /\ files = << >>
    /\ console = <<Msg("searching")>>
    /\ exit = Running
    /\ interrupted_at = "nowhere"

\* faulty variant: get_page gives up one attempt early
IsLastAttempt_one_early(a) == ~(a < retries - 2)
\* the else of "if attempt < retries - 1"
IsLastAttempt(a) == ~(a < retries - 1)

\* get_page: one pass of the loop body, up to its return or its sleep
GetPageAttempt ==
    /\ pc = "fetch"
    /\ \E outcome \in FetchOutcomes :
        /\ log' = Append(log, outcome)
        /\ IF outcome.ok
           THEN response' = outcome.page /\ pc' = "got_page"
           ELSE IF IsLastAttempt(attempt)
           THEN response' = NoResponse /\ pc' = "got_page"
           ELSE response' = response /\ pc' = "backoff"
    /\ UNCHANGED <<caller, attempt, urls, idx, fetched, all_products, self_products,
                   sale_products, files, console, exit, interrupted_at,
                   clsVars, extVars, saleVars>>

\* get_page: time.sleep(2 ** attempt) ends and the loop goes on
GetPageBackoff ==
    /\ pc = "backoff"
    /\ attempt' = attempt + 1
    /\ pc' = "fetch"
    /\ UNCHANGED <<caller, log, response, urls, idx, fetched, all_products, self_products,
                   sale_products, files, console, exit, interrupted_at,
                   clsVars, extVars, saleVars>>

\* a call of get_page begins
CallGetPage ==
    /\ attempt' = 0
    /\ log' = << >>
    /\ response' = NoResponse
    /\ pc' = "fetch"

\* find_product_pages, from the return of get_page; scrape_all_products then
\* enters its loop and scrape_products_page calls get_page
FindProductPagesReturn ==
    /\ pc = "got_page"
    /\ caller = "find_product_pages"
    /\ urls' = find_product_pages(response)
    /\ idx' = 1
    /\ caller' = "scrape_products_page"
    /\ CallGetPage
    /\ UNCHANGED <<fetched, all_products, self_products, sale_products, files, console,
                   exit, interrupted_at, clsVars, extVars, saleVars>>

\* faulty variant: a failed fetch raises out of scrape_products_page
scrape_products_page_raises(resp, url) ==
    IF resp = NoResponse THEN [exc |-> "RequestException", products |-> << >>]
    ELSE parse_products_page(resp, url)

\* scrape_products_page(url), from the return of get_page
scrape_products_page(resp, url) ==
    IF resp = NoResponse THEN [exc |-> "none", products |-> << >>]
    ELSE parse_products_page(resp, url)

\* main's "except Exception"
MainExcept(exc, in) ==
    /\ console' = Append(console, Msg("error"))
    /\ exit' = [how |-> "Exception", exc |-> exc, in |-> in]
    /\ pc' = "done"

AfterScrapeProductsPage(r) ==
    IF r.exc # "none"
    THEN /\ MainExcept(r.exc, "scrape_products_page")
         /\ UNCHANGED <<attempt, log, response, fetched, all_products>>
    ELSE /\ all_products' = all_products \o r.products
         /\ fetched' = Append(fetched, [url |-> urls[idx], response |-> response])
         /\ attempt' = 0 /\ log' = << >> /\ response' = NoResponse
         /\ pc' = "sleep"
         /\ UNCHANGED <<console, exit>>

\* scrape_all_products: scrape_products_page returns (or raises) and the loop
\* extends all_products
ScrapeProductsPageReturn ==
    /\ pc = "got_page"
    /\ caller = "scrape_products_page"
    /\ AfterScrapeProductsPage(scrape_products_page(response, urls[idx]))
    /\ UNCHANGED <<caller, urls, idx, self_products, sale_products, files,
                   interrupted_at, clsVars, extVars, saleVars>>

\* scrape_all_products: time.sleep(1) ends; the loop goes on with the next url,
\* or ends, the duplicates are removed and scrape_all_products returns
PageDelay ==
    /\ pc = "sleep"
    /\ IF idx < Len(urls)
       THEN /\ idx' = idx + 1
            /\ CallGetPage
            /\ UNCHANGED self_products
       ELSE /\ self_products' = unique_loop(all_products, {}, << >>)
            /\ pc' = "scraped"
            /\ UNCHANGED <<idx, attempt, log, response>>
    /\ UNCHANGED <<caller, urls, fetched, all_products, sale_products, files, console,
                   exit, interrupted_at, clsVars, extVars, saleVars>>

\* main: "if products", save_to_csv(products)
MainSaveAll ==
    /\ pc = "scraped"
    /\ IF self_products # << >>
       THEN /\ files' = Append(files, save_to_csv(self_products, "crisp_products"))
            /\ console' = Append(console, Msg("all products saved"))
            /\ pc' = "saved"
            /\ UNCHANGED exit
       ELSE /\ console' = Append(console, Msg("no products found"))
            /\ exit' = [how |-> "normal", exc |-> "none", in |-> "none"]
            /\ pc' = "done"
            /\ UNCHANGED files
    /\ UNCHANGED <<caller, attempt, log, response, urls, idx, fetched, all_products,
                   self_products, sale_products, interrupted_at, clsVars, extVars, saleVars>>

AfterPrintSale(r) ==
    /\ self_products' = r.products
    /\ IF r.exc # "none"
       THEN /\ MainExcept(r.exc, "is_on_sale")
            /\ UNCHANGED sale_products
       ELSE /\ sale_products' = r.sale_products
            /\ console' = Append(console, IF r.sale_products = << >>
                                          THEN Msg("no sale products")
                                          ELSE printed_list(r.sale_products))
            /\ pc' = "printed"
            /\ UNCHANGED exit

\* main: print_sale_products(), which calls find_sale_products
MainPrintSale ==
    /\ pc = "saved"
    /\ AfterPrintSale(find_sale_products(self_products))
    /\ UNCHANGED <<caller, attempt, log, response, urls, idx, fetched, all_products,
                   files, interrupted_at, clsVars, extVars, saleVars>>

AfterFindSale(r) ==
    /\ self_products' = r.products
    /\ IF r.exc # "none"
       THEN /\ MainExcept(r.exc, "is_on_sale")
            /\ UNCHANGED <<sale_products, files>>
       ELSE /\ sale_products' = r.sale_products
            /\ IF r.sale_products # << >>
               THEN /\ files' = Append(files, save_to_csv(r.sale_products, "crisp_sale_products"))
                    /\ console' = Append(console, Msg("sale products saved"))
               ELSE UNCHANGED <<files, console>>
            /\ exit' = [how |-> "normal", exc |-> "none", in |-> "none"]
            /\ pc' = "done"

\* main: find_sale_products() again, "if sale_products", save_to_csv
MainSaveSale ==
    /\ pc = "printed"
    /\ AfterFindSale(find_sale_products(self_products))
    /\ UNCHANGED <<caller, attempt, log, response, urls, idx, fetched, all_products,
                   interrupted_at, clsVars, extVars, saleVars>>

\* faulty variant: the handler saves what the loop had accumulated
MainInterrupt_saves ==
    /\ console' = Append(console, Msg("interrupted"))
    /\ files' = IF all_products = << >> THEN files
                ELSE Append(files, save_to_csv(all_products, "crisp_products"))
    /\ exit' = [how |-> "KeyboardInterrupt", exc |-> "KeyboardInterrupt", in |-> "none"]
    /\ pc' = "done"

\* main's "except KeyboardInterrupt"
MainInterrupt ==
    /\ console' = Append(console, Msg("interrupted"))
    /\ files' = files
    /\ exit' = [how |-> "KeyboardInterrupt", exc |-> "KeyboardInterrupt", in |-> "none"]
    /\ pc' = "done"

\* the operator interrupts the run: KeyboardInterrupt is raised where the run
\* is, no function on the way catches it, and main's handler prints its notice
Interrupt ==
    /\ pc \notin {"done", "parked"}
    /\ interrupted_at' = pc
    /\ MainInterrupt
    /\ UNCHANGED <<caller, attempt, log, response, urls, idx, fetched, all_products,
                   self_products, sale_products, clsVars, extVars, saleVars>>

Next ==
    \/ GetPageAttempt
    \/ GetPageBackoff
    \/ FindProductPagesReturn
    \/ ScrapeProductsPageReturn
    \/ PageDelay
    \/ MainSaveAll
    \/ MainPrintSale
    \/ MainSaveSale
    \/ Interrupt

Spec == Init /\ [][Next]_vars

----------------------------------------------------------------------------
(* Claims about the run, checked under Spec *)

\* C1: get_page makes at most retries attempts and none after one that
\* succeeded; it returns the response of the attempt that succeeded, unchanged
\* and whatever the number of attempts that failed before it, and returns None
\* only when retries attempts have failed.
C1_GetPageRetries ==
    /\ Len(log) <= retries
    /\ \A i \in 1..(Len(log) - 1) : ~log[i].ok
    /\ pc = "backoff" => (log # << >> /\ ~log[Len(log)].ok /\ Len(log) < retries)
    /\ pc = "got_page" =>
        /\ log # << >>
        /\ IF log[Len(log)].ok
           THEN response = log[Len(log)].page /\ response # NoResponse
           ELSE response = NoResponse /\ Len(log) = retries

\* two attempts fail and the third gives the page
C1_Witness ==
    /\ pc = "got_page"
    /\ Len(log) = 3
    /\ ~log[1].ok /\ ~log[2].ok /\ log[3].ok
    /\ response = Page_listing

\* the records of the pages scraped so far: none for a page whose fetch failed
RECURSIVE Contributions(_)
Contributions(pages) ==
    IF pages = << >> THEN << >>
    ELSE Contributions(SubSeq(pages, 1, Len(pages) - 1))
            \o (IF pages[Len(pages)].response = NoResponse THEN << >>
                ELSE parse_products_page(pages[Len(pages)].response,
                                         pages[Len(pages)].url).products)

\* C2: the loop of scrape_all_products takes the urls in order, each once; a url
\* whose fetch failed adds no record and does not end the loop or the run, and
\* the records of the pages that were fetched are all in all_products.
C2_FailureDoesNotStopLoop ==
    /\ Len(fetched) <= Len(urls)
    /\ \A i \in 1..Len(fetched) : fetched[i].url = urls[i]
    /\ all_products = Contributions(fetched)
    /\ pc = "sleep" => Len(fetched) = idx
    /\ (pc = "got_page" /\ caller = "scrape_products_page") => Len(fetched) = idx - 1
    /\ pc \in {"scraped", "saved", "printed"} => Len(fetched) = Len(urls)
    /\ exit.how = "normal" => Len(fetched) = Len(urls)
    /\ exit.in = "scrape_products_page" => (response # NoResponse /\ exit.exc = "TypeError")

\* of five urls, the fetch of one fails for good and a later one gives records
C2_Witness ==
    /\ pc = "scraped"
    /\ Len(urls) = MaxUrls
    /\ fetched[2].response = NoResponse
    /\ fetched[1].response = Page_listing
    /\ fetched[3].response = Page_again
    /\ Len(all_products) = 4

TitlePlaces(list, t) == {i \in 1..Len(list) : list[i].title = t}
FirstPlace(list, t) == CHOOSE i \in TitlePlaces(list, t) : \A j \in TitlePlaces(list, t) : i <= j

\* C3: when scrape_all_products returns, self.products holds, for each title of
\* all_products, the first record with that title and no other record, in the
\* order of all_products; no two records of self.products have the same title.
C3_DedupByTitle ==
    /\ \A k \in 1..Len(self_products) : \A l \in 1..Len(self_products) :
        k # l => self_products[k].title # self_products[l].title
    /\ pc = "scraped" =>
        /\ {self_products[k].title : k \in 1..Len(self_products)}
               = {all_products[i].title : i \in 1..Len(all_products)}
        /\ \A k \in 1..Len(self_products) :
               self_products[k] = all_products[FirstPlace(all_products, self_products[k].title)]
        /\ \A k \in 1..Len(self_products) : \A l \in 1..Len(self_products) :
               k < l => FirstPlace(all_products, self_products[k].title)
                            < FirstPlace(all_products, self_products[l].title)

\* two pages give different records with the same title, with a record between them
C3_Witness ==
    /\ pc = "scraped"
    /\ Len(all_products) = 4
    /\ Len(self_products) = 3
    /\ all_products[1].title = all_products[3].title
    /\ all_products[1] # all_products[3]
    /\ self_products[1] = all_products[1]

InterruptedWhileScraping ==
    /\ exit.how = "KeyboardInterrupt"
    /\ interrupted_at \in {"fetch", "backoff", "sleep"}

Reported(product) ==
    \E f \in 1..Len(files) : \E j \in 1..Len(files[f].rows) : files[f].rows[j] = Row(product)

\* C8 as stated: after an interrupt during a fetch, a backoff or the delay
\* between pages, the run ends without a crash having reported the records
\* accumulated so far
C8_AsStated ==
    InterruptedWhileScraping =>
        /\ pc = "done"
        /\ \A i \in 1..Len(all_products) : Reported(all_products[i])

\* C8 amended: an interrupt during a fetch, a backoff or the delay between pages
\* ends the run without a crash: main prints its notice and returns. The records
\* accumulated so far are not reported: no file is written and self.products
\* stays empty.
C8_InterruptEndsRun ==
    InterruptedWhileScraping =>
        /\ pc = "done"
        /\ console = <<Msg("searching"), Msg("interrupted")>>
        /\ files = << >>
        /\ self_products = << >>
        /\ sale_products = << >>

\* the interrupt comes in a backoff, after pages gave records
C8_Witness ==
    /\ InterruptedWhileScraping
    /\ interrupted_at = "backoff"
    /\ Len(fetched) = 2
    /\ all_products # << >>
    /\ files = << >>

\* C10 as stated: is_on_sale raises on no record that scrape_products_page
\* returns, so find_sale_products completes on every list that
\* scrape_all_products produces
C10_AsStated == exit.in # "is_on_sale"

====
